---- MODULE Spec2Model ----
(***************************************************************************)
(* DocBuilder: the ingest_file tool of src/main.py.                        *)
(*                                                                         *)
(* One call of ingest_file is two steps: from its entry through the        *)
(* existence check and the reading of the file, and then the fetch of the  *)
(* collection and the add.  Other calls, and the out-of-band creation and  *)
(* removal of collections, can fall between the two.                       *)
(*                                                                         *)
(* Text is a sequence of pieces, each a run of characters that ends at a   *)
(* boundary (paragraph, sentence, word) or at the end of the text; a       *)
(* piece's length counts its boundary characters.  A fragment of a text is *)
(* the substring [off, off + len).  Content types are <<type, subtype>>.   *)
(***************************************************************************)
EXTENDS Integers, Sequences, FiniteSets

VARIABLES
    chroma_client,  \* TRUE once init_chroma has opened the store (None before)
    collections,    \* the names of the collections of the store
    store,          \* the fragments of the store, each with its collection
    uuidCtr,        \* how many uuid4 values have been drawn
    docText,        \* the content of the text file /w/doc.txt
    calls,          \* how many ingest_file calls have been made
    pc,             \* per call slot: where its ingest_file call stands
    args,           \* per call slot: the arguments of its call
    loc,            \* per call slot: the call's local variables
    result,         \* per call slot: what the call returned (or raised)
    hist,           \* per call slot: what the call met and did (history)
    usedIds,        \* every id handed to a successful add (history)
    collided        \* TRUE once an add was handed an id already used (history)

vars == <<chroma_client, collections, store, uuidCtr, docText, calls, pc, args,
          loc, result, hist, usedIds, collided>>

----------------------------------------------------------------------------
(* Bounds *)

MaxCalls == 2
MaxWords == 2

Procs == {"p1", "p2"}
WordLens == {1, 1024, 1025, 2500}
Boundaries == {"para", "sent", "word"}

----------------------------------------------------------------------------
(* Text and the chunker *)

Piece == [len : WordLens, sep : Boundaries \cup {"end"}]

IsText(t) ==
    /\ \A i \in 1..Len(t) : (t[i].sep = "end") <=> (i = Len(t))

Texts ==
    {t \in UNION {[1..n -> Piece] : n \in 0..MaxWords} : IsText(t)}

RECURSIVE TextLen(_)
TextLen(t) == IF t = <<>> THEN 0 ELSE Head(t).len + TextLen(Tail(t))

Rank(sep) ==
    CASE sep = "para" -> 3
      [] sep = "sent" -> 2
      [] sep = "word" -> 1
      [] OTHER        -> 4

\* The pieces of t up to and including the first one that ends at a boundary
\* of rank lvl or coarser.
RECURSIVE RunEnd(_, _, _)
RunEnd(t, lvl, i) ==
    IF i >= Len(t) \/ Rank(t[i].sep) >= lvl THEN i ELSE RunEnd(t, lvl, i + 1)

RECURSIVE Runs(_, _)
Runs(t, lvl) ==
    IF t = <<>> THEN <<>>
    ELSE LET k == RunEnd(t, lvl, 1)
         IN  <<SubSeq(t, 1, k)>> \o Runs(SubSeq(t, k + 1, Len(t)), lvl)

RECURSIVE CharSplit(_, _, _)
CharSplit(off, n, m) ==
    IF n = 0 THEN <<>>
    ELSE IF n <= m THEN <<[off |-> off, len |-> n]>>
    ELSE <<[off |-> off, len |-> m]>> \o CharSplit(off + m, n - m, m)

RECURSIVE RecursiveChunk(_, _, _, _), ChunkRuns(_, _, _, _)
RecursiveChunk(t, off, lvl, m) ==
    IF t = <<>> THEN <<>>
    ELSE IF lvl = 0 THEN CharSplit(off, TextLen(t), m)
    ELSE ChunkRuns(Runs(t, lvl), off, lvl, m)
ChunkRuns(runs, off, lvl, m) ==
    IF runs = <<>> THEN <<>>
    ELSE LET n == TextLen(Head(runs))
         IN  (IF n <= m THEN <<[off |-> off, len |-> n]>>
              ELSE RecursiveChunk(Head(runs), off, lvl - 1, m))
             \o ChunkRuns(Tail(runs), off + n, lvl, m)

ChunkSizeDoubled == 2 * 1024

ChunkSize == 1024

Chunk(t) == RecursiveChunk(t, 0, 3, ChunkSize)

----------------------------------------------------------------------------
(* The file system *)

None == <<>>

FilePaths == {"doc.txt", "/w/empty.txt", "/w/blob", "/w/photo.png", "/w/missing.txt"}

Resolve(file_path) ==
    IF file_path = "doc.txt" THEN "/w/doc.txt" ELSE file_path

File(path) ==
    CASE path = "/w/doc.txt"   -> [exists |-> TRUE, utf8 |-> TRUE, text |-> docText,
                                   bytes |-> TextLen(docText)]
      [] path = "/w/empty.txt" -> [exists |-> TRUE, utf8 |-> TRUE, text |-> <<>>,
                                   bytes |-> 0]
      [] path = "/w/blob"      -> [exists |-> TRUE, utf8 |-> FALSE, text |-> <<>>,
                                   bytes |-> 7]
      [] path = "/w/photo.png" -> [exists |-> TRUE, utf8 |-> FALSE, text |-> <<>>,
                                   bytes |-> 9]
      [] OTHER                 -> [exists |-> FALSE, utf8 |-> FALSE, text |-> <<>>,
                                   bytes |-> 0]

PathExistsAlways(path) == TRUE

PathExists(path) == File(path).exists

GuessType(path) ==
    CASE path \in {"/w/doc.txt", "/w/empty.txt", "/w/missing.txt"} -> <<"text", "plain">>
      [] path = "/w/photo.png" -> <<"image", "png">>
      [] OTHER -> None

Overrides == {None, <<"image", "png">>}

ResolveContentType(path, content_type) ==
    IF content_type # None THEN content_type
    ELSE IF GuessType(path) # None THEN GuessType(path)
    ELSE <<"application", "octet-stream">>

IsImageNever(content_type) == FALSE

IsImage(content_type) == content_type # None /\ content_type[1] = "image"

DecodesAlways(path) == TRUE

Decodes(path) == File(path).utf8

----------------------------------------------------------------------------
(* The response *)

PreviewLen == 100

Truncate(n) ==
    IF n > PreviewLen THEN [len |-> PreviewLen, ellipsis |-> TRUE]
    ELSE [len |-> n, ellipsis |-> FALSE]

CtLen(content_type) ==
    CASE content_type = <<"text", "plain">> -> 10
      [] content_type = <<"image", "png">>  -> 9
      [] OTHER                              -> 24

Digits(n) == IF n < 10 THEN 1 ELSE IF n < 100 THEN 2 ELSE IF n < 1000 THEN 3 ELSE 4

\* len("<Binary data of type {content_type}, size {n} bytes>")
PlaceholderLen(content_type, n) == 21 + CtLen(content_type) + 7 + Digits(n) + 7

ChunksCreatedOne(chunks) == 1

\* len(chunks) if "chunks" in locals() else 1; chunks is -1 while undefined
ChunksCreated(chunks) == IF chunks >= 0 THEN chunks ELSE 1

NoResult == [pending |-> TRUE]
ErrorResult(kind, detail) == [error |-> <<kind, detail>>]
RaisedResult(exc) == [raised |-> exc]
SuccessResult(content_len, content_type, size, chunks) ==
    [content |-> Truncate(content_len), content_type |-> content_type,
     size |-> size, chunks_created |-> ChunksCreated(chunks)]
ImageResult(content_type, size) ==
    [content |-> [data |-> size, format |-> content_type[Len(content_type)]],
     content_type |-> content_type, size |-> size]

IsError(r) == "error" \in DOMAIN r
IsRaised(r) == "raised" \in DOMAIN r
IsSuccess(r) == "chunks_created" \in DOMAIN r
IsImageResult(r) == "content" \in DOMAIN r /\ "chunks_created" \notin DOMAIN r

----------------------------------------------------------------------------
(* The store *)

CollectionNames == {"docs", "notes"}

GetCollectionAssumeFound(name, fault) == IF fault THEN "fault" ELSE "found"

\* chroma_client.get_collection(name): the collection, ValueError when there
\* is none, or any other exception of a failing store.
GetCollection(name, fault) ==
    IF fault THEN "fault"
    ELSE IF name \in collections THEN "found"
    ELSE "ValueError"

Uuid4Indexed(ctr, i) == i

\* The i-th uuid4 drawn from a generator that has given ctr values: the values
\* of one generator never repeat.
Uuid4(ctr, i) == ctr + i

TextMetadata(path, content_type, i, total) ==
    [source_file |-> path, content_type |-> content_type,
     chunk_index |-> i, total_chunks |-> total]

BinaryMetadata(path, content_type) ==
    [source_file |-> path, content_type |-> content_type, is_binary |-> TRUE]

\* documents, metadatas and ids of the text path, position by position
TextBatch(path, content_type, chunks, ctr) ==
    [i \in 1..Len(chunks) |->
        [document |-> chunks[i],
         metadata |-> TextMetadata(path, content_type, i - 1, Len(chunks)),
         id |-> Uuid4(ctr, i)]]

BinaryBatch(path, content_type, size, ctr) ==
    <<[document |-> [placeholder |-> content_type, bytes |-> size],
       metadata |-> BinaryMetadata(path, content_type),
       id |-> Uuid4(ctr, 1)]>>

BatchIds(batch) == {batch[i].id : i \in 1..Len(batch)}

StoreIds(name) == {r.id : r \in {s \in store : s.collection = name}}

\* collection.add: a batch with no ids or with a repeated id is refused
\* (ValueError); an id the collection already holds is skipped.
AddRefused(batch) ==
    \/ Len(batch) = 0
    \/ Cardinality(BatchIds(batch)) # Len(batch)

Added(name, batch, by) ==
    {[collection |-> name, id |-> batch[i].id, document |-> batch[i].document,
      metadata |-> batch[i].metadata, by |-> by] :
        i \in {j \in 1..Len(batch) : batch[j].id \notin StoreIds(name)}}

----------------------------------------------------------------------------
(* State *)

NoArgs == [file_path |-> "", collection_name |-> "", content_type |-> None]
NoLoc == [content_type |-> None, batch |-> <<>>, chunks |-> -1, size |-> 0,
          content_len |-> 0]
NoHist == [id |-> 0, checked |-> "no", failed |-> FALSE, wrote |-> <<>>]

InitWith(texts) ==
    /\ chroma_client = FALSE
    /\ collections = {}
    /\ store = {}
    /\ uuidCtr = 0
    /\ docText \in texts
    /\ calls = 0
    /\ pc = [p \in Procs |-> "idle"]
    /\ args = [p \in Procs |-> NoArgs]
    /\ loc = [p \in Procs |-> NoLoc]
    /\ result = [p \in Procs |-> NoResult]
    /\ hist = [p \in Procs |-> NoHist]
    /\ usedIds = {}
    /\ collided = FALSE

PlainDoc == <<[len |-> 2500, sep |-> "end"]>>

Init == InitWith({PlainDoc})

InitText == InitWith(Texts)

----------------------------------------------------------------------------
(* init_chroma, and the store's out-of-band operations *)

init_chroma ==
    /\ ~chroma_client
    /\ chroma_client' = TRUE
    /\ UNCHANGED <<collections, store, uuidCtr, docText, calls, pc, args, loc,
                   result, hist, usedIds, collided>>

CreateCollection(name) ==
    /\ chroma_client
    /\ name \notin collections
    /\ collections' = collections \cup {name}
    /\ UNCHANGED <<chroma_client, store, uuidCtr, docText, calls, pc, args, loc,
                   result, hist, usedIds, collided>>

DeleteCollection(name) ==
    /\ chroma_client
    /\ name \in collections
    /\ collections' = collections \ {name}
    /\ store' = {r \in store : r.collection # name}
    /\ UNCHANGED <<chroma_client, uuidCtr, docText, calls, pc, args, loc,
                   result, hist, usedIds, collided>>

----------------------------------------------------------------------------
(* ingest_file *)

\* The call of slot p returns res (or raises it).
Return(p, res, h) ==
    /\ pc' = [pc EXCEPT ![p] = "done"]
    /\ result' = [result EXCEPT ![p] = res]
    /\ loc' = [loc EXCEPT ![p] = NoLoc]
    /\ hist' = [hist EXCEPT ![p] = h]

Failed(p) == [hist[p] EXCEPT !.failed = TRUE]

\* Resolve the path and the content type, read the file, prepare the batch
\* (the ids of the text path are drawn here, before the collection is fetched
\* again).
ReadFile(p, a, h, openFails, reopenFails) ==
    LET path == Resolve(a.file_path)
        ct   == ResolveContentType(path, a.content_type)
        f    == File(path)
        chunks == Chunk(f.text)
        failed == [h EXCEPT !.failed = TRUE]
    IN  IF ~PathExists(path)
        THEN /\ Return(p, ErrorResult("File not found", a.file_path), h)
             /\ UNCHANGED uuidCtr
        ELSE IF openFails
        THEN /\ Return(p, ErrorResult("Error reading file", "OSError"), failed)
             /\ UNCHANGED uuidCtr
        ELSE IF IsImage(ct)
        THEN /\ Return(p, ImageResult(ct, f.bytes), h)
             /\ UNCHANGED uuidCtr
        ELSE IF Decodes(path)
        THEN /\ pc' = [pc EXCEPT ![p] = "add_text"]
             /\ loc' = [loc EXCEPT ![p] =
                          [content_type |-> ct,
                           batch |-> TextBatch(path, ct, chunks, uuidCtr),
                           chunks |-> Len(chunks),
                           size |-> TextLen(f.text),
                           content_len |-> TextLen(f.text)]]
             /\ result' = [result EXCEPT ![p] = NoResult]
             /\ hist' = [hist EXCEPT ![p] = h]
             /\ uuidCtr' = uuidCtr + Len(chunks)
        ELSE IF reopenFails
        THEN /\ Return(p, ErrorResult("Error reading file", "OSError"), failed)
             /\ UNCHANGED uuidCtr
        ELSE /\ pc' = [pc EXCEPT ![p] = "add_binary"]
             /\ loc' = [loc EXCEPT ![p] =
                          [content_type |-> ct, batch |-> <<>>, chunks |-> -1,
                           size |-> f.bytes,
                           content_len |-> PlaceholderLen(ct, f.bytes)]]
             /\ result' = [result EXCEPT ![p] = NoResult]
             /\ hist' = [hist EXCEPT ![p] = h]
             /\ UNCHANGED uuidCtr

\* Verify the collection exists: only ValueError is caught.
CheckCollection(p, a, h0, fault, openFails, reopenFails) ==
    LET name == a.collection_name
        got  == GetCollection(name, fault)
        h    == [h0 EXCEPT
                   !.checked = IF name \in collections THEN "present" ELSE "absent",
                   !.failed = fault]
    IN  IF got = "fault"
        THEN /\ Return(p, RaisedResult("StoreError"), h)
             /\ UNCHANGED uuidCtr
        ELSE IF got = "ValueError"
        THEN /\ Return(p, ErrorResult("Collection does not exist", name), h)
             /\ UNCHANGED uuidCtr
        ELSE ReadFile(p, a, h, openFails, reopenFails)

\* The slots are alike: a call takes the first free one.
Lower(p) == IF p = "p2" THEN {"p1"} ELSE {}

\* A call, from its entry to its return or to the point where it has the
\* batch in hand and fetches the collection again: the store must have been
\* opened; then the existence check; then the file.  Nothing another call or
\* the store's owner does can fall between these: the file system does not
\* change, and the check is the only look at the store.
Invoke(p, file_path, collection_name, content_type) ==
    /\ pc[p] \in {"idle", "done"}
    /\ \A q \in Lower(p) : pc[q] \notin {"idle", "done"}
    /\ calls < MaxCalls
    /\ calls' = calls + 1
    /\ LET a  == [file_path |-> file_path, collection_name |-> collection_name,
                  content_type |-> content_type]
           h0 == [NoHist EXCEPT !.id = calls + 1]
       IN  /\ args' = [args EXCEPT ![p] = a]
           /\ IF ~chroma_client
              THEN /\ Return(p, ErrorResult("Chroma client not initialized", ""), h0)
                   /\ UNCHANGED uuidCtr
              ELSE \E fault \in BOOLEAN, openFails \in BOOLEAN, reopenFails \in BOOLEAN :
                      CheckCollection(p, a, h0, fault, openFails, reopenFails)
    /\ UNCHANGED <<chroma_client, collections, store, docText, usedIds, collided>>

\* get_collection and collection.add of the batch, then the response.
AddBatch(p, batch, fault) ==
    LET name == args[p].collection_name
        got  == GetCollection(name, fault = "get")
    IN  IF got # "found"
        THEN /\ Return(p, ErrorResult("Error reading file", got), Failed(p))
             /\ UNCHANGED <<store, usedIds, collided>>
        ELSE IF AddRefused(batch)
        THEN /\ Return(p, ErrorResult("Error reading file", "empty ids"), hist[p])
             /\ UNCHANGED <<store, usedIds, collided>>
        ELSE IF fault = "add"
        THEN /\ Return(p, ErrorResult("Error reading file", "StoreError"), Failed(p))
             /\ UNCHANGED <<store, usedIds, collided>>
        ELSE /\ store' = store \cup Added(name, batch, hist[p].id)
             /\ usedIds' = usedIds \cup BatchIds(batch)
             /\ collided' = (collided \/ BatchIds(batch) \cap usedIds # {})
             /\ Return(p, SuccessResult(loc[p].content_len, loc[p].content_type,
                                        loc[p].size, loc[p].chunks),
                       [hist[p] EXCEPT !.wrote = Append(@,
                          [batch |-> batch,
                           added |-> Cardinality(Added(name, batch, hist[p].id) \ store)])])

AddChunks(p) ==
    /\ pc[p] = "add_text"
    /\ \E fault \in {"none", "get", "add"} : AddBatch(p, loc[p].batch, fault)
    /\ UNCHANGED <<chroma_client, collections, uuidCtr, docText, calls, args>>

\* The binary path draws its one id while it builds the arguments of add.
AddPlaceholder(p) ==
    /\ pc[p] = "add_binary"
    /\ \E fault \in {"none", "get", "add"} :
         /\ AddBatch(p, BinaryBatch(Resolve(args[p].file_path), loc[p].content_type,
                                    loc[p].size, uuidCtr), fault)
         /\ uuidCtr' = IF GetCollection(args[p].collection_name, fault = "get") = "found"
                       THEN uuidCtr + 1 ELSE uuidCtr
    /\ UNCHANGED <<chroma_client, collections, docText, calls, args>>

----------------------------------------------------------------------------
(* Specifications *)

Step(p) ==
    \/ \E f \in FilePaths, c \in CollectionNames, t \in Overrides :
          Invoke(p, f, c, t)
    \/ AddChunks(p)
    \/ AddPlaceholder(p)

Environment ==
    \/ init_chroma
    \/ \E name \in CollectionNames : CreateCollection(name)
    \/ \E name \in CollectionNames : DeleteCollection(name)

Next == Environment \/ \E p \in Procs : Step(p)

Spec == Init /\ [][Next]_vars

\* Ingests of /w/doc.txt into the collection docs, one call at a time, over
\* every text of the bounds.
TextStep(p) ==
    \/ Invoke(p, "doc.txt", "docs", None)
    \/ AddChunks(p)

NextText ==
    \/ init_chroma
    \/ CreateCollection("docs")
    \/ DeleteCollection("docs")
    \/ TextStep("p1")

SpecText == InitText /\ [][NextText]_vars

----------------------------------------------------------------------------
(* Properties *)

Done(p) == pc[p] = "done"
Path(p) == Resolve(args[p].file_path)
ResolvedType(p) == ResolveContentType(Path(p), args[p].content_type)
ImageType(p) == ResolvedType(p)[1] = "image"
\* The store answered the existence check: the collection was there and
\* nothing the call reached failed afterwards.
Reached(p) == hist[p].checked = "present" /\ ~hist[p].failed
WrittenBy(id) == {r \in store : r.by = id}
Prepared(p) == pc[p] = "add_text"

\* C1: a call (store opened) whose existence check finds no collection of
\* that name returns the error naming the collection and appends nothing,
\* whatever the file and the content type are.
C1_MissingCollectionRejected ==
    \A p \in Procs :
        (Done(p) /\ hist[p].checked = "absent" /\ ~hist[p].failed)
        => /\ result[p] = ErrorResult("Collection does not exist",
                                      args[p].collection_name)
           /\ hist[p].wrote = <<>>
           /\ WrittenBy(hist[p].id) = {}

C1_Witness ==
    \E p \in Procs :
        /\ Done(p) /\ hist[p].checked = "absent" /\ ~hist[p].failed
        /\ ~File(Path(p)).exists
        /\ IsError(result[p])

\* C2: no failure inside a call propagates out of it: every finished call
\* has returned a result, never raised.
C2_NoFailurePropagates ==
    \A p \in Procs : Done(p) => ~IsRaised(result[p])

\* C3: ingesting the existing empty text file into an existing collection
\* returns success with chunks_created = 0, not an error, and appends nothing.
C3_EmptyFileSucceeds ==
    \A p \in Procs :
        (Done(p) /\ Reached(p) /\ Path(p) = "/w/empty.txt" /\ ~ImageType(p))
        => /\ IsSuccess(result[p])
           /\ result[p].chunks_created = 0
           /\ hist[p].wrote = <<>>

\* C4: the metadata records a call writes (text path with n chunks, binary
\* placeholder with n = 1) carry chunk_index 0..n-1 in fragment order and
\* total_chunks = n.
C4_ChunkIndexContiguous ==
    \A p \in Procs :
        \A k \in 1..Len(hist[p].wrote) :
            LET b == hist[p].wrote[k].batch
            IN  \A i \in 1..Len(b) :
                    /\ {"chunk_index", "total_chunks"} \subseteq DOMAIN b[i].metadata
                    /\ b[i].metadata.chunk_index = i - 1
                    /\ b[i].metadata.total_chunks = Len(b)

\* C5: ingesting the existing non-image file whose bytes are not UTF-8 into
\* an existing collection, with no override, appends exactly one fragment,
\* with is_binary = true and no text fragment, and reports chunks_created = 1.
C5_BinaryPlaceholder ==
    \A p \in Procs :
        (Done(p) /\ Reached(p) /\ Path(p) = "/w/blob" /\ args[p].content_type = None)
        => /\ IsSuccess(result[p])
           /\ result[p].chunks_created = 1
           /\ Len(hist[p].wrote) = 1
           /\ hist[p].wrote[1].added = 1
           /\ LET b == hist[p].wrote[1].batch
              IN  /\ Len(b) = 1
                  /\ "is_binary" \in DOMAIN b[1].metadata
                  /\ b[1].metadata.is_binary
                  /\ "placeholder" \in DOMAIN b[1].document
           /\ \A r \in WrittenBy(hist[p].id) : "is_binary" \in DOMAIN r.metadata

C5_Witness ==
    \E p \in Procs :
        /\ Done(p) /\ Reached(p) /\ Path(p) = "/w/blob" /\ args[p].content_type = None
        /\ Cardinality(WrittenBy(hist[p].id)) = 1

C7_MissingFileRejected ==
    \A p \in Procs :
        (Done(p) /\ Reached(p) /\ ~File(Path(p)).exists)
        => /\ result[p] = ErrorResult("File not found", args[p].file_path)
           /\ hist[p].wrote = <<>>
           /\ WrittenBy(hist[p].id) = {}

C7_Witness ==
    \E p \in Procs :
        /\ Done(p) /\ Reached(p) /\ ~File(Path(p)).exists
        /\ args[p].content_type = <<"image", "png">>
        /\ IsError(result[p])

\* C8: no two fragments of the store share an id, every append uses ids never
\* used before, and an append of n fragments adds n and overwrites none,
\* under every interleaving of calls.
C8_IdsNeverReused ==
    /\ ~collided
    /\ \A r1, r2 \in store : r1.id = r2.id => r1 = r2
    /\ \A p \in Procs :
        /\ Prepared(p)
             => /\ BatchIds(loc[p].batch) \cap usedIds = {}
                /\ Cardinality(BatchIds(loc[p].batch)) = Len(loc[p].batch)
                /\ \A q \in Procs \ {p} :
                     Prepared(q) => BatchIds(loc[p].batch) \cap BatchIds(loc[q].batch) = {}
        /\ \A k \in 1..Len(hist[p].wrote) :
             hist[p].wrote[k].added = Len(hist[p].wrote[k].batch)

\* the same file ingested twice into the same collection: two copies of a
\* fragment under two ids
C8_Witness ==
    \E r1, r2 \in store :
        /\ r1.by # r2.by
        /\ r1.collection = r2.collection
        /\ r1.document = r2.document
        /\ r1.metadata = r2.metadata
        /\ r1.id # r2.id

C10_AllOrNothing ==
    \A p \in Procs :
        /\ (Done(p) /\ ~IsSuccess(result[p]))
             => hist[p].wrote = <<>> /\ WrittenBy(hist[p].id) = {}
        /\ ~Done(p) => hist[p].wrote = <<>> /\ WrittenBy(hist[p].id) = {}
        /\ (Done(p) /\ IsSuccess(result[p]))
             => /\ Len(hist[p].wrote) = 1
                /\ Len(hist[p].wrote[1].batch) = result[p].chunks_created
                /\ hist[p].wrote[1].added = result[p].chunks_created
                /\ Cardinality(WrittenBy(hist[p].id)) \in {0, result[p].chunks_created}

\* the collection is removed between the existence check and the append
C10_Witness ==
    \E p \in Procs :
        /\ Done(p) /\ hist[p].checked = "present"
        /\ result[p] = ErrorResult("Error reading file", "ValueError")
        /\ args[p].collection_name \notin collections
        /\ \E q \in Procs \ {p} : Done(q) /\ IsSuccess(result[q])

====
